---- MODULE Spec2Model ----
(***************************************************************************)
(* Model of process_streams.py: main() downloads a playlist, probes every  *)
(* entry on a ThreadPoolExecutor, collects the verdicts in entry order,    *)
(* fetches the programme guide, filters it against the live channel ids    *)
(* over a 3-hour and a 6-hour horizon and writes four output files.        *)
(*                                                                         *)
(* Time is counted in whole hours.  A guide timestamp is the attribute     *)
(* value as found in the feed: absent, a string that does not match the    *)
(* format, a date-time without zone offset, or a date-time with offset.    *)
(* Playlist entries carry their position as url, so that two entries are   *)
(* always distinguishable in the outputs.                                  *)
(***************************************************************************)
EXTENDS Integers, Sequences, FiniteSets, TLC

VARIABLES pc, error, all_channels, submitted, work_queue, running, result,
          runs, ci, live_channels, live_tvg_ids, epg_status, epg_root, now,
          epg_data_3h, filtered_epg_channels, filtered_epg_programmes,
          written, out_m3u, out_epg, out_json, out_info

vars == <<pc, error, all_channels, submitted, work_queue, running, result,
          runs, ci, live_channels, live_tvg_ids, epg_status, epg_root, now,
          epg_data_3h, filtered_epg_channels, filtered_epg_programmes,
          written, out_m3u, out_epg, out_json, out_info>>

poolVars == <<submitted, work_queue, running, result, runs>>
collectVars == <<ci, live_channels, live_tvg_ids>>
epgVars == <<epg_status, epg_root>>
filterVars == <<now, epg_data_3h, filtered_epg_channels, filtered_epg_programmes>>
outVars == <<written, out_m3u, out_epg, out_json, out_info>>

(*************************** bounds of the model ***************************)
\* longest playlist
MaxEntries == 3
\* size of the thread pool (50 in the source, scaled so that the cap binds)
MAX_WORKERS == 2
\* most <channel> elements in a guide feed
MaxChans == 2
\* most <programme> elements in a guide feed
MaxProgs == 2

(**************************** program constants ****************************)
HOURS_3 == 3
HOURS_6 == 6

(******************************* input sets ********************************)
\* tvg-id values of playlist entries; "" is what parse_m3u stores when the
\* attribute is missing
TvgIds == {"", "X", "Y"}

PlayLists ==
  UNION { { [i \in 1..n |-> [url |-> i, tvg_id |-> f[i]]] : f \in [1..n -> TvgIds] }
          : n \in 0..MaxEntries }

\* outcomes of requests.head: a response with a status code, an exception
\* derived from requests.RequestException, or any other exception
Responses ==
  { [kind |-> "response", status |-> s] : s \in {199, 200, 399, 400} }
  \cup { [kind |-> k, status |-> 0] : k \in {"Timeout", "ConnectionError", "InvalidURL", "OtherError"} }

RequestExceptions == {"Timeout", "ConnectionError", "InvalidURL"}

Absent == [k |-> "absent", local |-> 0, off |-> 0]
Garbage == [k |-> "garbage", local |-> 0, off |-> 0]
NoOffset(t) == [k |-> "nooffset", local |-> t, off |-> 0]
Stamp(t, o) == [k |-> "full", local |-> t, off |-> o]

Prog(c, s, e) == [channel |-> c, start |-> s, stop |-> e]

\* the hour at which step 5 reads the clock
NowValues == {10}

\* programmes of the whole-run specification
CoreProgs ==
  { Prog("X", Stamp(13, 1), Stamp(17, 0)),
    Prog("X", Absent, Stamp(17, 0)),
    Prog("", Stamp(13, 1), Stamp(17, 0)) }

CoreChanIds == {"X"}

\* programmes of the guide-filter specification
FilterProgs ==
  { Prog("X", Stamp(13, 1), Stamp(17, 0)),
    Prog("X", Stamp(13, 0), Stamp(17, 0)),
    Prog("X", Stamp(12, -1), Stamp(17, 0)),
    Prog("X", Stamp(16, 1), Stamp(17, 0)),
    Prog("X", Stamp(16, 0), Stamp(17, 0)),
    Prog("X", Stamp(13, 1), Stamp(10, 0)),
    Prog("X", Stamp(13, 1), Stamp(11, 1)),
    Prog("X", Stamp(13, 1), Stamp(10, -1)),
    Prog("Y", Stamp(13, 1), Stamp(17, 0)),
    Prog("X", Absent, Stamp(17, 0)),
    Prog("X", Stamp(13, 1), Absent),
    Prog("X", Garbage, Stamp(17, 0)),
    Prog("X", Stamp(13, 1), Garbage),
    Prog("X", NoOffset(12), NoOffset(17)) }

FilterChanIds == {"X", "Y"}

SeqsUpTo(S, n) == UNION { [1..k -> S] : k \in 0..n }

Feeds(ids, progs) ==
  { [channels |-> c, programmes |-> p] : c \in SeqsUpTo(ids, MaxChans), p \in SeqsUpTo(progs, MaxProgs) }

NoFeed == [channels |-> <<>>, programmes |-> <<>>]

(***************************** pure functions ******************************)
\* check_stream_status: "true" / "false", or "exc" when an exception that the
\* except clause does not name leaves the function
check_stream_status(resp) ==
  IF resp.kind = "response"
    THEN IF 200 <= resp.status /\ resp.status < 400 THEN "true" ELSE "false"
    ELSE IF resp.kind \in RequestExceptions THEN "false" ELSE "exc"

\* parse_epg_datetime: strptime(date_str, '%Y%m%d%H%M%S %z')
parse_epg_datetime(ts) ==
  CASE ts.k = "absent" -> [r |-> "TypeError", local |-> 0, off |-> 0]
    [] ts.k = "full" -> [r |-> "datetime", local |-> ts.local, off |-> ts.off]
    [] OTHER -> [r |-> "None", local |-> 0, off |-> 0]

\* position of an aware datetime on the absolute timeline
Instant(dt) == dt.local - dt.off

\* get_current_utc_time
UtcTime(t) == [r |-> "datetime", local |-> t, off |-> 0]

(****************************** initial state ******************************)
EmptyDict == [x \in {} |-> <<>>]

Init ==
  /\ pc = "start"
  /\ error = "none"
  /\ all_channels = <<>>
  /\ submitted = 0
  /\ work_queue = <<>>
  /\ running = {}
  /\ result = <<>>
  /\ runs = <<>>
  /\ ci = 1
  /\ live_channels = <<>>
  /\ live_tvg_ids = {}
  /\ epg_status = "unfetched"
  /\ epg_root = NoFeed
  /\ now = 0
  /\ epg_data_3h = EmptyDict
  /\ filtered_epg_channels = <<>>
  /\ filtered_epg_programmes = <<>>
  /\ written = {}
  /\ out_m3u = <<>>
  /\ out_epg = NoFeed
  /\ out_json = <<>>
  /\ out_info = 0

(************************ steps 1-2: the playlist **************************)
\* requests.get of the playlist raises: main() returns
M3UFails ==
  /\ pc = "start"
  /\ pc' = "aborted"
  /\ UNCHANGED <<error, all_channels, poolVars, collectVars, epgVars, filterVars, outVars>>

\* the playlist is fetched and parsed into all_channels
M3ULoads ==
  /\ pc = "start"
  /\ \E chs \in PlayLists :
       /\ all_channels' = chs
       /\ result' = [i \in 1..Len(chs) |-> "pending"]
       /\ runs' = [i \in 1..Len(chs) |-> 0]
  /\ pc' = "submit"
  /\ UNCHANGED <<error, submitted, work_queue, running, collectVars, epgVars, filterVars, outVars>>

(********************* step 3: the concurrent probes ***********************)
\* executor.submit inside the dict comprehension: one future per entry, in
\* entry order; the work item joins the executor's FIFO queue
Submit ==
  /\ pc = "submit"
  /\ submitted < Len(all_channels)
  /\ submitted' = submitted + 1
  /\ work_queue' = Append(work_queue, submitted + 1)
  /\ UNCHANGED <<pc, error, all_channels, running, result, runs, collectVars, epgVars, filterVars, outVars>>

\* the comprehension is exhausted: main() enters the collection loop
BeginCollect ==
  /\ pc = "submit"
  /\ submitted = Len(all_channels)
  /\ pc' = "collect"
  /\ UNCHANGED <<error, all_channels, poolVars, collectVars, epgVars, filterVars, outVars>>

CanStart_uncapped == work_queue # <<>>

\* a pool of max_workers threads: a queued item is taken only by a free worker
CanStart == work_queue # <<>> /\ Cardinality(running) < MAX_WORKERS

\* a worker thread takes the oldest queued work item and starts the probe
StartProbe ==
  /\ CanStart
  /\ running' = running \cup {Head(work_queue)}
  /\ work_queue' = Tail(work_queue)
  /\ runs' = [runs EXCEPT ![Head(work_queue)] = @ + 1]
  /\ UNCHANGED <<pc, error, all_channels, submitted, result, collectVars, epgVars, filterVars, outVars>>

\* the probe of entry i returns or raises; the future stores the outcome
FinishProbe(i) ==
  /\ i \in running
  /\ \E resp \in Responses :
       result' = [result EXCEPT ![i] = check_stream_status(resp)]
  /\ running' = running \ {i}
  /\ UNCHANGED <<pc, error, all_channels, submitted, work_queue, runs, collectVars, epgVars, filterVars, outVars>>

FutureAt_reversed(k) == Len(all_channels) + 1 - k

\* "for future in future_to_channel": the k-th key of the dict is the future
\* of the k-th submitted entry
FutureAt(k) == k

\* future_to_channel[future]
ChannelOf(f) == all_channels[f]

CanRead_nowait(f) == TRUE

\* future.result() blocks until the future is done
CanRead(f) == result[f] # "pending"

AddLiveId_always(ids, channel) == ids \cup {channel.tvg_id}

\* if channel['tvg_id']: live_tvg_ids.add(channel['tvg_id'])
AddLiveId(ids, channel) ==
  IF channel.tvg_id # "" THEN ids \cup {channel.tvg_id} ELSE ids

\* one iteration of the collection loop
Collect ==
  /\ pc = "collect"
  /\ ci <= Len(all_channels)
  /\ CanRead(FutureAt(ci))
  /\ LET f == FutureAt(ci)
         channel == ChannelOf(f)
     IN IF result[f] = "exc"
          THEN /\ pc' = "unwind"
               /\ error' = "ProbeError"
               /\ UNCHANGED collectVars
          ELSE /\ ci' = ci + 1
               /\ live_channels' = IF result[f] = "true"
                                     THEN Append(live_channels, channel)
                                     ELSE live_channels
               /\ live_tvg_ids' = IF result[f] = "true"
                                    THEN AddLiveId(live_tvg_ids, channel)
                                    ELSE live_tvg_ids
               /\ UNCHANGED <<pc, error>>
  /\ UNCHANGED <<all_channels, poolVars, epgVars, filterVars, outVars>>

\* leaving the "with" block: executor.shutdown(wait=True) returns once no
\* work item is queued or running; a pending exception then leaves main()
ExitPool ==
  /\ \/ pc = "collect" /\ ci > Len(all_channels)
     \/ pc = "unwind"
  /\ work_queue = <<>>
  /\ running = {}
  /\ pc' = IF pc = "unwind" THEN "crashed" ELSE "epg"
  /\ UNCHANGED <<error, all_channels, poolVars, collectVars, epgVars, filterVars, outVars>>

(*********************** step 4: the programme guide ***********************)
AfterEpgFailure_propagates == "crashed"

\* download_and_parse_epg catches every Exception and returns None; main()
\* goes on to step 5
AfterEpgFailure == "filter"

EpgFails ==
  /\ pc = "epg"
  /\ epg_status' = "failed"
  /\ epg_root' = NoFeed
  /\ pc' = AfterEpgFailure
  /\ error' = IF AfterEpgFailure = "crashed" THEN "EpgError" ELSE error
  /\ UNCHANGED <<all_channels, poolVars, collectVars, filterVars, outVars>>

EpgLoads ==
  /\ pc = "epg"
  /\ epg_status' = "parsed"
  /\ \E feed \in Feeds(CoreChanIds, CoreProgs) : epg_root' = feed
  /\ pc' = "filter"
  /\ UNCHANGED <<error, all_channels, poolVars, collectVars, filterVars, outVars>>

(************************ step 5: the guide filter *************************)
RECURSIVE FilterChannels(_, _, _)
\* the loop over epg_root.findall("channel")
FilterChannels(chans, ids, acc) ==
  IF chans = <<>> THEN acc
  ELSE FilterChannels(Tail(chans), ids,
                      IF Head(chans) \in ids THEN Append(acc, Head(chans)) ELSE acc)

\* stop_time > now
NotEnded(stop_time, t) == Instant(stop_time) > Instant(t)

StartsBefore_inclusive(start_time, t, hours) == Instant(start_time) <= Instant(t) + hours

\* start_time < now + timedelta(hours=...)
StartsBefore(start_time, t, hours) == Instant(start_time) < Instant(t) + hours

\* epg_data_3h[prog_channel].append(prog_data), the list created on first use
DictAppend(d, key, v) ==
  [x \in DOMAIN d \cup {key} |->
     IF x = key THEN (IF key \in DOMAIN d THEN Append(d[key], v) ELSE <<v>>)
     ELSE d[x]]

\* epg_data_3h.get(tvg_id, [])
DictGet(d, key) == IF key \in DOMAIN d THEN d[key] ELSE <<>>

ProgData(start_time, stop_time) == [start |-> start_time, stop |-> stop_time]

\* strptime(None, ...) raises TypeError, which "except ValueError" lets through
Raises(dt) == dt.r = "TypeError"

\* the body of the loop over epg_root.findall("programme"); acc holds
\* epg_data_3h, filtered_epg_programmes and the exception raised, if any
ProgStep(acc, p, ids, t) ==
  IF p.channel \notin ids THEN acc
  ELSE LET start_time == parse_epg_datetime(p.start)
           stop_time == parse_epg_datetime(p.stop)
       IN IF Raises(start_time) \/ Raises(stop_time)
            THEN [acc EXCEPT !.err = "TypeError"]
          ELSE IF start_time.r # "datetime" \/ stop_time.r # "datetime"
            THEN acc
          ELSE IF NotEnded(stop_time, t)
            THEN [d3h |-> IF StartsBefore(start_time, t, HOURS_3)
                            THEN DictAppend(acc.d3h, p.channel, ProgData(start_time, stop_time))
                            ELSE acc.d3h,
                  p6h |-> IF StartsBefore(start_time, t, HOURS_6)
                            THEN Append(acc.p6h, p)
                            ELSE acc.p6h,
                  err |-> acc.err]
          ELSE acc

RECURSIVE FilterProgrammes(_, _, _, _)
\* the loop stops at the first programme that raises
FilterProgrammes(progs, ids, t, acc) ==
  IF progs = <<>> \/ acc.err # "none" THEN acc
  ELSE FilterProgrammes(Tail(progs), ids, t, ProgStep(acc, Head(progs), ids, t))

ShouldFilter == epg_status = "parsed"

\* now is read once; the feed is filtered only when there is one
FilterEPG ==
  /\ pc = "filter"
  /\ \E t \in NowValues :
       /\ now' = t
       /\ IF ShouldFilter
            THEN LET chans == FilterChannels(epg_root.channels, live_tvg_ids, <<>>)
                     acc == FilterProgrammes(epg_root.programmes, live_tvg_ids, UtcTime(t),
                                             [d3h |-> EmptyDict, p6h |-> <<>>, err |-> "none"])
                 IN /\ filtered_epg_channels' = chans
                    /\ epg_data_3h' = acc.d3h
                    /\ filtered_epg_programmes' = acc.p6h
                    /\ error' = acc.err
                    /\ pc' = IF acc.err = "none" THEN "write" ELSE "crashed"
            ELSE /\ pc' = "write"
                 /\ UNCHANGED <<error, epg_data_3h, filtered_epg_channels, filtered_epg_programmes>>
  /\ UNCHANGED <<all_channels, poolVars, collectVars, epgVars, outVars>>

(************************ steps 6-9: the outputs ***************************)
\* one record of playlist.json
CatalogRecord(channel) ==
  [url |-> channel.url, tvg_id |-> channel.tvg_id, epg |-> DictGet(epg_data_3h, channel.tvg_id)]

OutputFiles == {"playlist.m3u", "epg.xml", "playlist.json", "info.json"}

WriteOutputs ==
  /\ pc = "write"
  /\ out_m3u' = live_channels
  /\ out_epg' = IF epg_status = "parsed"
                  THEN [channels |-> filtered_epg_channels, programmes |-> filtered_epg_programmes]
                  ELSE NoFeed
  /\ out_json' = [i \in 1..Len(live_channels) |-> CatalogRecord(live_channels[i])]
  /\ out_info' = now
  /\ written' = OutputFiles
  /\ pc' = "done"
  /\ UNCHANGED <<error, all_channels, poolVars, collectVars, epgVars, filterVars>>

(***************************** specifications ******************************)
Next ==
  \/ M3UFails
  \/ M3ULoads
  \/ Submit
  \/ BeginCollect
  \/ StartProbe
  \/ \E i \in 1..MaxEntries : FinishProbe(i)
  \/ Collect
  \/ ExitPool
  \/ EpgFails
  \/ EpgLoads
  \/ FilterEPG
  \/ WriteOutputs

\* the whole run
Spec == Init /\ [][Next]_vars

\* the probing phase alone, under the scheduling the code relies on: the main
\* thread keeps running, a free worker thread takes queued work, and every
\* probe ends (requests.head returns or raises within its timeout)
PoolNext ==
  \/ M3UFails
  \/ M3ULoads
  \/ Submit
  \/ BeginCollect
  \/ StartProbe
  \/ \E i \in 1..MaxEntries : FinishProbe(i)
  \/ Collect
  \/ ExitPool

PoolSpec ==
  /\ Init
  /\ [][PoolNext]_vars
  /\ WF_vars(Submit)
  /\ WF_vars(StartProbe)
  /\ \A i \in 1..MaxEntries : WF_vars(FinishProbe(i))

\* the guide stage alone: main() has collected every verdict and parsed a
\* guide feed, and is about to read the clock
FilterPlayLists ==
  { <<>>,
    <<[url |-> 1, tvg_id |-> "X"]>>,
    <<[url |-> 1, tvg_id |-> ""], [url |-> 2, tvg_id |-> "X"]>>,
    <<[url |-> 1, tvg_id |-> "Y"], [url |-> 2, tvg_id |-> "X"]>> }

InitFilter ==
  /\ pc = "filter"
  /\ error = "none"
  /\ all_channels \in FilterPlayLists
  /\ submitted = Len(all_channels)
  /\ work_queue = <<>>
  /\ running = {}
  /\ result = [i \in 1..Len(all_channels) |-> "true"]
  /\ runs = [i \in 1..Len(all_channels) |-> 1]
  /\ ci = Len(all_channels) + 1
  /\ live_channels = all_channels
  /\ live_tvg_ids = {all_channels[i].tvg_id : i \in 1..Len(all_channels)} \ {""}
  /\ epg_status = "parsed"
  /\ epg_root \in Feeds(FilterChanIds, FilterProgs)
  /\ now = 0
  /\ epg_data_3h = EmptyDict
  /\ filtered_epg_channels = <<>>
  /\ filtered_epg_programmes = <<>>
  /\ written = {}
  /\ out_m3u = <<>>
  /\ out_epg = NoFeed
  /\ out_json = <<>>
  /\ out_info = 0

FilterNext ==
  \/ FilterEPG
  \/ WriteOutputs

FilterSpec == InitFilter /\ [][FilterNext]_vars

(******************************* properties ********************************)
Range(seq) == {seq[i] : i \in 1..Len(seq)}

AfterProbing == {"epg", "filter", "write", "done"}
AfterFilter == {"write", "done"}

\* the entries among the first k whose own probe returned true, in playlist order
ExpectedLive(k) ==
  LET idx == SelectSeq([i \in 1..k |-> i], LAMBDA i : result[i] = "true")
  IN [j \in 1..Len(idx) |-> all_channels[idx[j]]]

\* C1: under every interleaving of the probes, the live list is exactly the
\* playlist entries whose own probe returned true, in playlist order: after k
\* verdicts have been read it is that subsequence of the first k entries, two
\* live entries are never swapped, and once the probing phase is over all
\* verdicts have been read.
C1_LiveListIsOrderedSubsequence ==
  /\ ci - 1 <= Len(all_channels)
  /\ live_channels = ExpectedLive(ci - 1)
  /\ \A a, b \in 1..Len(live_channels) : a < b => live_channels[a].url < live_channels[b].url
  /\ pc \in AfterProbing => ci = Len(all_channels) + 1

\* two live entries around one that is not live, all verdicts read
C1_Witness ==
  /\ pc = "epg"
  /\ Len(all_channels) = 3
  /\ result = <<"true", "false", "true">>
  /\ Len(live_channels) = 2

\* C2: a failed probe of any cause gives the verdict false and never reaches
\* the collection loop of main() as an exception.
C2_ProbeFailureNeverPropagates ==
  /\ pc # "unwind"
  /\ error # "ProbeError"

\* C3: when no entry of a playlist is live after all its probes are collected,
\* the run stops: the guide feed is not fetched and no output file is written.
C3_EmptyLiveListStopsRun ==
  ( /\ pc \in AfterProbing \cup {"crashed"}
    /\ all_channels # <<>>
    /\ ci = Len(all_channels) + 1
    /\ live_channels = <<>> )
    => (epg_status = "unfetched" /\ written = {})

\* the claim's reading of a guide timestamp that carries an offset
AbsInstant(ts) == ts.local - ts.off
Parsable(p) == p.start.k = "full" /\ p.stop.k = "full"
InWindow(p, hours) ==
  /\ p.channel \in live_tvg_ids
  /\ Parsable(p)
  /\ AbsInstant(p.stop) > now
  /\ AbsInstant(p.start) < now + hours
SeqMap(Op(_), seq) == [i \in 1..Len(seq) |-> Op(seq[i])]
BucketRecord(p) ==
  [start |-> [r |-> "datetime", local |-> p.start.local, off |-> p.start.off],
   stop |-> [r |-> "datetime", local |-> p.stop.local, off |-> p.stop.off]]
GuideChannelIds == {"", "X", "Y", "Z"}

\* C4: once the guide filter has returned, channelsFiltered is the guide
\* channels whose id is valid, in feed order; the 6-hour list is exactly the
\* programmes with a valid channel, stop > now and start < now+6h, in feed
\* order; the 3-hour bucket of a channel is exactly its programmes with
\* stop > now and start < now+3h, in feed order; both tests are strict and
\* every programme of a 3-hour bucket is also in the 6-hour list.
C4_GuideFilterResult ==
  (pc \in AfterFilter /\ epg_status = "parsed") =>
    /\ filtered_epg_channels = SelectSeq(epg_root.channels, LAMBDA c : c \in live_tvg_ids)
    /\ filtered_epg_programmes = SelectSeq(epg_root.programmes, LAMBDA p : InWindow(p, 6))
    /\ DOMAIN epg_data_3h \subseteq live_tvg_ids
    /\ \A c \in GuideChannelIds :
         DictGet(epg_data_3h, c) =
           SeqMap(BucketRecord,
                  SelectSeq(epg_root.programmes, LAMBDA p : p.channel = c /\ InWindow(p, 3)))
    /\ \A p \in Range(epg_root.programmes) :
         InWindow(p, 3) => p \in Range(filtered_epg_programmes)

\* two programmes of a live channel, one inside three hours and one at the
\* three-hour horizon, and two guide channels kept
C4_Witness ==
  /\ pc = "done"
  /\ Len(filtered_epg_channels) = 2
  /\ Len(filtered_epg_programmes) = 2
  /\ "X" \in DOMAIN epg_data_3h
  /\ Len(epg_data_3h["X"]) = 1
  /\ \E p \in Range(epg_root.programmes) : AbsInstant(p.start) = now + 3

\* C5: a guide record whose start or stop is missing or malformed is dropped
\* from the 3-hour buckets and the 6-hour list, no error is raised, and the
\* run goes on.
C5_UnparsableRecordDropped ==
  /\ error # "TypeError"
  /\ pc \in AfterFilter =>
       \A p \in Range(epg_root.programmes) :
         (p.start.k \in {"absent", "garbage"} \/ p.stop.k \in {"absent", "garbage"})
           => p \notin Range(filtered_epg_programmes)

\* a timestamp without offset read in the reference zone (UTC)
RefInstant(ts) == IF ts.k = "nooffset" THEN ts.local ELSE ts.local - ts.off

\* C6: a programme whose timestamps carry no zone offset is read in the
\* reference zone and is in the 6-hour list when its channel is valid, its
\* stop is after now and its start before now+6h.
C6_NoOffsetStillEligible ==
  pc \in AfterFilter =>
    \A p \in Range(epg_root.programmes) :
      ( /\ p.start.k \in {"full", "nooffset"}
        /\ p.stop.k \in {"full", "nooffset"}
        /\ "nooffset" \in {p.start.k, p.stop.k}
        /\ p.channel \in live_tvg_ids
        /\ RefInstant(p.stop) > now
        /\ RefInstant(p.start) < now + 6 )
      => p \in Range(filtered_epg_programmes)

\* C7: the valid-id set is exactly the non-empty ids of the live entries; an
\* entry without id is probed like any other, stays in the live list when its
\* probe succeeds, appears in the playlist and the catalog, and its catalog
\* record has no programmes.
C7_ValidIdsAreNonEmptyLiveIds ==
  /\ live_tvg_ids = {live_channels[i].tvg_id : i \in 1..Len(live_channels)} \ {""}
  /\ \A k \in 1..(ci - 1) :
       (all_channels[k].tvg_id = "" /\ result[k] = "true") => all_channels[k] \in Range(live_channels)
  /\ pc \in AfterProbing => \A k \in 1..Len(all_channels) : runs[k] = 1
  /\ pc = "done" =>
       /\ out_m3u = live_channels
       /\ Len(out_json) = Len(live_channels)
       /\ \A i \in 1..Len(live_channels) :
            /\ out_json[i].url = live_channels[i].url
            /\ out_json[i].tvg_id = live_channels[i].tvg_id
            /\ live_channels[i].tvg_id = "" => out_json[i].epg = <<>>

\* a live entry without id beside a live entry with one, and a guide programme
\* whose channel attribute is the empty string
C7_Witness ==
  /\ pc = "done"
  /\ live_tvg_ids # {}
  /\ \E i \in 1..Len(live_channels) : live_channels[i].tvg_id = ""
  /\ \E p \in Range(epg_root.programmes) : p.channel = ""

\* C8: when the guide feed cannot be fetched or decoded and some entry is
\* live, the run is not aborted: it writes the playlist with every live entry
\* in order, a guide without channels and programmes, and a catalog whose
\* records all have an empty programme list.
C8_GuideFailureDegrades ==
  (epg_status = "failed" /\ live_channels # <<>>) =>
    /\ pc \in {"filter", "write", "done"}
    /\ error = "none"
    /\ pc # "done" => ENABLED (FilterEPG \/ WriteOutputs)
    /\ pc = "done" =>
         /\ written = OutputFiles
         /\ out_m3u = live_channels
         /\ out_epg = NoFeed
         /\ Len(out_json) = Len(live_channels)
         /\ \A i \in 1..Len(out_json) :
              out_json[i].url = live_channels[i].url /\ out_json[i].epg = <<>>

C8_Witness ==
  /\ pc = "done"
  /\ epg_status = "failed"
  /\ Len(live_channels) >= 2
  /\ written = OutputFiles

\* C9: never more than MAX_WORKERS probes are in flight; a probe starts only
\* while fewer than MAX_WORKERS are running, so a queued probe beyond the cap
\* starts after a running one has finished; no probe is run twice, and every
\* submitted probe is eventually run once and finishes.
C9_BoundedPool ==
  /\ [](Cardinality(running) <= MAX_WORKERS)
  /\ [](\A i \in DOMAIN runs : runs[i] <= 1)
  /\ [][Cardinality(running') > Cardinality(running) => Cardinality(running) < MAX_WORKERS]_vars
  /\ \A i \in 1..MaxEntries :
       (submitted >= i) ~> (i \in DOMAIN runs /\ runs[i] = 1 /\ result[i] # "pending")

\* the pool is full and a submitted probe waits in the queue
C9_Witness ==
  /\ Cardinality(running) = MAX_WORKERS
  /\ work_queue # <<>>

\* C10 as claimed: no verdict is read and appended to the live list while
\* another probe is still queued or running.
C10_NoVerdictReadBeforeBarrier ==
  live_channels # <<>> => (work_queue = <<>> /\ running = {})

\* C10 as amended: a verdict is read only after its own probe has completed
\* and after every entry has been dispatched; when the probing phase is over
\* no probe is queued or running and every future holds its outcome.
C10_VerdictReadAfterOwnProbe ==
  /\ \A k \in 1..(ci - 1) : result[k] # "pending"
  /\ (pc = "collect" \/ ci > 1) => submitted = Len(all_channels)
  /\ pc \in AfterProbing \cup {"crashed"} =>
       /\ work_queue = <<>>
       /\ running = {}
       /\ \A k \in DOMAIN result : result[k] # "pending"

\* a verdict is already in the live list while another probe is in flight
C10_Witness ==
  /\ live_channels # <<>>
  /\ running # {}

====
